---- MODULE Spec2Model ----
(***************************************************************************)
(* Airport surveillance scenario generator (generate_dataset.py).          *)
(*                                                                         *)
(* The state is the process-wide random stream of Python's `random`        *)
(* module, the fields of the ScenarioGenerator objects, and the output     *)
(* files.  Floats are exact rationals [n, d]; strings that the code        *)
(* formats and splits (terminal, area, location) are token sequences in    *)
(* which "/" is a token of its own; the Mersenne Twister is a full-period  *)
(* congruential generator over RngMod states.                              *)
(***************************************************************************)
EXTENDS Integers, Sequences, FiniteSets, TLC

VARIABLES
    rng,     \* state of the module-level generator behind random.*
    gen,     \* gen[g]: the fields of generator object g
    seed,    \* seed[g]: the seed g was constructed with
    log,     \* log[g]: the calls made on g since its construction
    cur,     \* the generator the driver loop holds (`gen`, line 397)
    files,   \* files[p]: what is on disk at path p
    err      \* the exception the last call raised to its caller, or "none"

vars == <<rng, gen, seed, log, cur, files, err>>

----------------------------------------------------------------------------
(* Bounds of the model                                                     *)

MaxCalls == 3          \* calls on one generator object between constructions
MaxCamsPerBatch == 1   \* cameras kept of each batch of the camera table
RngBits == 6           \* the random stream has 2^RngBits states

RngMod == 2 ^ RngBits
Gens == {"g1", "g2"}
\* seeds 42 + i of generate_dataset, for scenarios 0, 1 and 62
Seeds == {42, 43, 104}
Paths == {"scenario_0000.json"}

----------------------------------------------------------------------------
(* Exact rationals for the float fields                                    *)

Rat(n, d) == [n |-> n, d |-> d]
RatMul(r, n, d) == [n |-> r.n * n, d |-> r.d * d]
RatLeq(a, b) == a.n * b.d <= b.n * a.d
RatLt(a, b) == a.n * b.d < b.n * a.d
RatEq(a, b) == a.n * b.d = b.n * a.d
RatMin(a, b) == IF RatLeq(a, b) THEN a ELSE b

Min(a, b) == IF a <= b THEN a ELSE b

----------------------------------------------------------------------------
(* The random stream                                                       *)

\* random.seed(seed)
SeedState(s) == s % RngMod

\* one step of the stream; every random.* call takes one
NextRng(r) == (r * 21 + 37) % RngMod

\* the value in 0..n-1 that the stream's state r yields
RandBelow(r, n) == (r * n) \div RngMod

\* the float in [0,1) that the stream's state r yields
RandUnit(r) == Rat(r, RngMod)

\* a + (b-a) * random.random(), for integers a, b given in tenths
RandUniformTenths(r, a, b) == Rat(a * RngMod + (b - a) * r, 10 * RngMod)

----------------------------------------------------------------------------
(* Strings the code formats and splits                                     *)

RECURSIVE Join(_)
Join(toks) == IF toks = <<>> THEN "" ELSE Head(toks) \o Join(Tail(toks))

\* f"{i:02d}"
Fmt02d(i) == IF i < 10 THEN "0" \o ToString(i) ELSE ToString(i)

\* f"{terminal}/{area}"
Location(terminal, area) == terminal \o <<"/">> \o area

\* location.split('/')[0]
RECURSIVE SplitFirst(_)
SplitFirst(loc) ==
    IF loc = <<>> \/ Head(loc) = "/" THEN <<>>
    ELSE <<Head(loc)>> \o SplitFirst(Tail(loc))

\* f"cam_{terminal}_{area}_{i:02d}"
CameraId(terminal, area, i) ==
    "cam_" \o Join(terminal) \o "_" \o Join(area) \o "_" \o Fmt02d(i)

----------------------------------------------------------------------------
(* Topology                                                                *)

PolicyZone == {"PZ1_CRITICAL_SECURITY", "PZ2_BOARDING_GATES", "PZ3_PUBLIC_AREA",
               "PZ4_VIP_RESTRICTED", "PZ5_ARRIVAL_BAGGAGE"}

\* list(PolicyZone)
AllZones == <<"PZ1_CRITICAL_SECURITY", "PZ2_BOARDING_GATES", "PZ3_PUBLIC_AREA",
              "PZ4_VIP_RESTRICTED", "PZ5_ARRIVAL_BAGGAGE">>

priority_map ==
    [z \in PolicyZone |->
        CASE z = "PZ1_CRITICAL_SECURITY" -> 1
          [] z = "PZ2_BOARDING_GATES" -> 2
          [] z = "PZ3_PUBLIC_AREA" -> 3
          [] z = "PZ4_VIP_RESTRICTED" -> 2
          [] z = "PZ5_ARRIVAL_BAGGAGE" -> 3]

\* one Camera(...) of _add_terminal_cameras
NewCamera(terminal, area, zone, i) ==
    LET prof == IF zone = "PZ1_CRITICAL_SECURITY"
                  THEN [res |-> "4K", fps |-> 30, bitrate |-> 25]
                ELSE IF zone \in {"PZ2_BOARDING_GATES", "PZ4_VIP_RESTRICTED"}
                  THEN [res |-> "1080p", fps |-> 30, bitrate |-> 8]
                ELSE [res |-> "1080p", fps |-> 25, bitrate |-> 6]
    IN [id |-> CameraId(terminal, area, i), zone |-> zone,
        location |-> Location(terminal, area), priority |-> priority_map[zone],
        resolution |-> prof.res, fps |-> prof.fps, bitrate_mbps |-> prof.bitrate]

\* self.cameras after _add_terminal_cameras(terminal, area, zone, count)
AddTerminalCamerasTo(cams, terminal, area, zone, count) ==
    cams \o [k \in 1..count |-> NewCamera(terminal, area, zone, k - 1)]

\* the count of a batch, cut to the model's bound
Batch(terminal, area, zone, count) ==
    [terminal |-> <<terminal>>, area |-> <<area>>, zone |-> zone,
     count |-> Min(count, MaxCamsPerBatch)]

\* the fourteen _add_terminal_cameras calls of generate_topology
CameraBatches == <<
    Batch("TerminalA", "CheckIn", "PZ3_PUBLIC_AREA", 8),
    Batch("TerminalA", "Gates_A", "PZ2_BOARDING_GATES", 10),
    Batch("TerminalA", "VIP", "PZ4_VIP_RESTRICTED", 3),
    Batch("TerminalB", "CheckIn", "PZ3_PUBLIC_AREA", 8),
    Batch("TerminalB", "Gates_B", "PZ2_BOARDING_GATES", 12),
    Batch("TerminalB", "VIP", "PZ4_VIP_RESTRICTED", 3),
    Batch("TerminalC", "Gates_C", "PZ2_BOARDING_GATES", 8),
    Batch("TerminalC", "Baggage", "PZ5_ARRIVAL_BAGGAGE", 6),
    Batch("TerminalC", "Arrival", "PZ5_ARRIVAL_BAGGAGE", 4),
    Batch("Security", "Screening", "PZ1_CRITICAL_SECURITY", 15),
    Batch("Perimeter", "Fence", "PZ1_CRITICAL_SECURITY", 20),
    Batch("Perimeter", "Apron", "PZ1_CRITICAL_SECURITY", 12),
    Batch("Staff", "Corridors", "PZ1_CRITICAL_SECURITY", 8),
    Batch("Retail", "Shops", "PZ3_PUBLIC_AREA", 10) >>

RECURSIVE AddBatches(_, _)
AddBatches(cams, batches) ==
    IF batches = <<>> THEN cams
    ELSE LET b == Head(batches)
         IN AddBatches(AddTerminalCamerasTo(cams, b.terminal, b.area, b.zone, b.count),
                       Tail(batches))

EdgeServer(id, location, cpu, mem, bw) ==
    [id |-> id, location |-> location, cpu_cores |-> cpu, memory_gb |-> mem,
     network_bandwidth_gbps |-> bw]

EdgeServers == <<
    EdgeServer("edge_termA", "Terminal A", 16, 64, 10),
    EdgeServer("edge_termB", "Terminal B", 16, 64, 10),
    EdgeServer("edge_termC", "Terminal C", 16, 64, 10),
    EdgeServer("edge_security", "Security Hub", 32, 128, 25),
    EdgeServer("edge_perimeter", "Perimeter Control", 16, 64, 10),
    EdgeServer("core_gateway", "Server Room", 64, 128, 100) >>

CloudEndpoints == <<
    [id |-> "cloud_primary", location |-> "Region-1", bandwidth_gbps |-> 100],
    [id |-> "cloud_backup", location |-> "Region-2", bandwidth_gbps |-> 100] >>

NetworkLink(src, dst, cap, lat, loss, stochastic, link_type) ==
    [src |-> src, dst |-> dst, capacity_mbps |-> cap, latency_ms |-> lat,
     packet_loss_rate |-> loss, stochastic |-> stochastic, link_type |-> link_type]

camera_to_edge_map ==
    [t \in {"TerminalA", "TerminalB", "TerminalC", "Security", "Perimeter", "Staff",
            "Retail"} |->
        CASE t = "TerminalA" -> "edge_termA"
          [] t = "TerminalB" -> "edge_termB"
          [] t = "TerminalC" -> "edge_termC"
          [] t = "Security" -> "edge_security"
          [] t = "Perimeter" -> "edge_perimeter"
          [] t = "Staff" -> "edge_security"
          [] t = "Retail" -> "edge_termA"]

\* (mutant) a fallback edge that generate_topology never builds
MissingEdge == "edge_default"

\* the edge a lookup falls back to for a terminal the map does not hold
DefaultEdge == "edge_termA"

\* camera_to_edge_map.get(cam.location.split('/')[0], "edge_termA")
LocalEdge(cam) ==
    LET terminal == Join(SplitFirst(cam.location))
    IN IF terminal \in DOMAIN camera_to_edge_map THEN camera_to_edge_map[terminal]
       ELSE DefaultEdge

\* the ids an edge-to-gateway link is made for
NonGatewayIds(edges) ==
    SelectSeq([k \in 1..Len(edges) |-> edges[k].id], LAMBDA id : id # "core_gateway")

EdgeLink(id) == NetworkLink(id, "core_gateway", Rat(10000, 1), Rat(1, 1), Rat(0, 1),
                            FALSE, "wired")

WanLinks == <<
    NetworkLink("core_gateway", "cloud_primary", Rat(1000, 1), Rat(15, 1), Rat(1, 1000),
                TRUE, "wan"),
    NetworkLink("core_gateway", "cloud_backup", Rat(1000, 1), Rat(25, 1), Rat(1, 1000),
                TRUE, "wan") >>

CameraLink(cam) ==
    LET terminal == Join(SplitFirst(cam.location))
        is_outdoor == (terminal = "Perimeter")
        is_wired == ~is_outdoor
    IN NetworkLink(cam.id, LocalEdge(cam),
                   IF is_wired THEN Rat(1000, 1) ELSE Rat(300, 1),
                   IF is_wired THEN Rat(1, 1) ELSE Rat(8, 1),
                   IF is_wired THEN Rat(1, 10000) ELSE Rat(5, 1000),
                   is_outdoor,
                   IF is_wired THEN "wired" ELSE "wireless")

\* self.network_links after _create_network_links()
CreateNetworkLinks(links, edges, cams) ==
    LET ids == NonGatewayIds(edges)
    IN links \o [k \in 1..Len(ids) |-> EdgeLink(ids[k])]
             \o WanLinks
             \o [k \in 1..Len(cams) |-> CameraLink(cams[k])]

----------------------------------------------------------------------------
(* Generator objects and their calls                                       *)

EmptyGen ==
    [cameras |-> <<>>, edge_servers |-> <<>>, cloud_endpoints |-> <<>>,
     network_links |-> <<>>, flows |-> <<>>, intents |-> <<>>,
     background_traffic |-> <<>>, failures |-> <<>>]

Call(op, str, num) == [op |-> op, str |-> str, num |-> num]

NoFile ==
    [exists |-> FALSE, complete |-> FALSE, scenario_id |-> 0, weather |-> "",
     time_of_day |-> "", sections |-> <<>>]

Logged(g, c) == log' = [log EXCEPT ![g] = Append(@, c)]

\* ScenarioGenerator(seed=42), twice
DefaultSeed == 42

Init ==
    /\ rng = SeedState(DefaultSeed)
    /\ gen = [g \in Gens |-> EmptyGen]
    /\ seed = [g \in Gens |-> DefaultSeed]
    /\ log = [g \in Gens |-> <<>>]
    /\ cur = "g1"
    /\ files = [p \in Paths |-> NoFile]
    /\ err = "none"

\* (mutant) a constructor that leaves the random stream as it finds it
ConstructNoReseed(g, s) ==
    /\ gen' = [gen EXCEPT ![g] = EmptyGen]
    /\ seed' = [seed EXCEPT ![g] = s]
    /\ log' = [log EXCEPT ![g] = <<>>]
    /\ cur' = g
    /\ err' = "none"
    /\ UNCHANGED <<rng, files>>

\* gen = ScenarioGenerator(seed=s)
Construct(g, s) ==
    /\ rng' = SeedState(s)
    /\ gen' = [gen EXCEPT ![g] = EmptyGen]
    /\ seed' = [seed EXCEPT ![g] = s]
    /\ log' = [log EXCEPT ![g] = <<>>]
    /\ cur' = g
    /\ err' = "none"
    /\ UNCHANGED files

\* g._add_terminal_cameras(terminal, area, zone, count), called from outside
AddTerminalCameras(g, terminal, area, zone, count) ==
    /\ gen' = [gen EXCEPT ![g].cameras =
                   AddTerminalCamerasTo(@, terminal, area, zone, count)]
    /\ Logged(g, Call("_add_terminal_cameras", Join(Location(terminal, area)), count))
    /\ err' = "none"
    /\ UNCHANGED <<rng, seed, cur, files>>

\* g.generate_topology()
GenerateTopology(g) ==
    LET cams == AddBatches(gen[g].cameras, CameraBatches)
    IN /\ gen' = [gen EXCEPT ![g].cameras = cams,
                             ![g].edge_servers = EdgeServers,
                             ![g].cloud_endpoints = CloudEndpoints,
                             ![g].network_links =
                                 CreateNetworkLinks(@, EdgeServers, cams)]
       /\ Logged(g, Call("generate_topology", "", 0))
       /\ err' = "none"
       /\ UNCHANGED <<rng, seed, cur, files>>

----------------------------------------------------------------------------
(* Weather physics                                                          *)

\* (mutant) rain congests the WAN links as a storm does
WeatherLinkRainOnWan(link, w) ==
    IF link.stochastic
      THEN IF link.link_type = "wireless"
             THEN IF w = "rain"
                    THEN [link EXCEPT !.packet_loss_rate = Rat(5, 100),
                                      !.capacity_mbps = RatMul(@, 8, 10)]
                  ELSE IF w = "storm"
                    THEN [link EXCEPT !.packet_loss_rate = Rat(15, 100),
                                      !.capacity_mbps = RatMul(@, 6, 10)]
                  ELSE link
           ELSE IF link.link_type = "wan"
             THEN IF w \in {"rain", "storm"}
                    THEN [link EXCEPT !.capacity_mbps = RatMul(@, 7, 10),
                                      !.latency_ms = RatMul(@, 15, 10)]
                  ELSE link
           ELSE link
      ELSE link

\* the body of the loop of apply_weather_physics, for one link
WeatherLink(link, w) ==
    IF link.stochastic
      THEN IF link.link_type = "wireless"
             THEN IF w = "rain"
                    THEN [link EXCEPT !.packet_loss_rate = Rat(5, 100),
                                      !.capacity_mbps = RatMul(@, 8, 10)]
                  ELSE IF w = "storm"
                    THEN [link EXCEPT !.packet_loss_rate = Rat(15, 100),
                                      !.capacity_mbps = RatMul(@, 6, 10)]
                  ELSE link
           ELSE IF link.link_type = "wan"
             THEN IF w = "storm"
                    THEN [link EXCEPT !.capacity_mbps = RatMul(@, 7, 10),
                                      !.latency_ms = RatMul(@, 15, 10)]
                  ELSE link
           ELSE link
      ELSE link

\* self.network_links after apply_weather_physics(w)
WeatherLinks(links, w) ==
    IF w = "clear" THEN links
    ELSE [k \in 1..Len(links) |-> WeatherLink(links[k], w)]

\* g.apply_weather_physics(w)
ApplyWeatherPhysics(g, w) ==
    /\ gen' = [gen EXCEPT ![g].network_links = WeatherLinks(@, w)]
    /\ Logged(g, Call("apply_weather_physics", w, 0))
    /\ err' = "none"
    /\ UNCHANGED <<rng, seed, cur, files>>

----------------------------------------------------------------------------
(* Intents                                                                  *)

\* one entry of an intent's constraints: its key, and the Python type and text
\* of its value
Constraint(key, kind, text) == [key |-> key, kind |-> kind, text |-> text]

Intent(id, category, description, target_zones, constraints, priority) ==
    [id |-> id, category |-> category, description |-> description,
     target_zones |-> target_zones, constraints |-> constraints, priority |-> priority]

BaseIntents == <<
    Intent("SC1", "SAFETY_CRITICAL", "Sub-200ms latency for security",
           <<"PZ1_CRITICAL_SECURITY">>, <<Constraint("max_latency", "int", "200")>>, 1),
    Intent("SC2", "SAFETY_CRITICAL", "Prioritize intrusion detection",
           <<"PZ1_CRITICAL_SECURITY">>, <<Constraint("priority_boost", "bool", "True")>>, 1),
    Intent("CM1", "CROWD_MONITORING", "Optimize check-in density monitoring",
           <<"PZ3_PUBLIC_AREA">>, <<Constraint("min_fps", "int", "15")>>, 2),
    Intent("CO1", "COST_OPTIMIZATION", "Minimize cloud egress cost",
           AllZones, <<Constraint("max_cloud_ratio", "float", "0.3")>>, 3),
    Intent("NQ1", "NETWORK_QOS", "Limit packet loss < 1%",
           AllZones, <<Constraint("max_loss", "float", "0.01")>>, 2),
    Intent("FT1", "FAULT_TOLERANCE", "Failover to nearest edge",
           AllZones, <<Constraint("failover_enabled", "bool", "True")>>, 1) >>

\* self.intents after generate_intents(time_context)
IntentsFor(time_context) ==
    IF time_context = "peak"
      THEN Append(BaseIntents,
                  Intent("CA1", "CONTEXT_AWARE", "Peak hour security boost",
                         <<"PZ1_CRITICAL_SECURITY">>,
                         <<Constraint("bw_reservation", "str", "50%")>>, 1))
    ELSE IF time_context = "emergency"
      THEN Append(BaseIntents,
                  Intent("CA2", "CONTEXT_AWARE", "EMERGENCY: Max reliability",
                         AllZones, <<Constraint("override_cost", "bool", "True")>>, 1))
    ELSE BaseIntents

\* (mutant) a generate_intents that does not empty the list first
GenerateIntentsAccumulating(g, time_context) ==
    /\ gen' = [gen EXCEPT ![g].intents = gen[g].intents \o IntentsFor(time_context)]
    /\ Logged(g, Call("generate_intents", time_context, 0))
    /\ err' = "none"
    /\ UNCHANGED <<rng, seed, cur, files>>

\* g.generate_intents(time_context)
GenerateIntents(g, time_context) ==
    /\ gen' = [gen EXCEPT ![g].intents = IntentsFor(time_context)]
    /\ Logged(g, Call("generate_intents", time_context, 0))
    /\ err' = "none"
    /\ UNCHANGED <<rng, seed, cur, files>>

\* the caller puts an intent of its own, with an opaque constraint value of
\* Python type `kind`, on g.intents
CallerAppendIntent(g, kind) ==
    /\ gen' = [gen EXCEPT ![g].intents =
                   Append(@, Intent("X1", "MULTI_OBJECTIVE", "caller intent", AllZones,
                                    <<Constraint("payload", kind, "")>>, 1))]
    /\ Logged(g, Call("intents.append", kind, 0))
    /\ err' = "none"
    /\ UNCHANGED <<rng, seed, cur, files>>

----------------------------------------------------------------------------
(* Flows                                                                    *)

analytics_map ==
    [z \in PolicyZone |->
        CASE z = "PZ1_CRITICAL_SECURITY" -> "intrusion"
          [] z = "PZ2_BOARDING_GATES" -> "passenger_flow"
          [] z = "PZ3_PUBLIC_AREA" -> "crowd_analytics"
          [] z = "PZ4_VIP_RESTRICTED" -> "occupancy"
          [] z = "PZ5_ARRIVAL_BAGGAGE" -> "baggage_tracking"]

\* intensity in tenths, delay in ms
analytics_profile ==
    [t \in {"intrusion", "crowd_analytics", "passenger_flow", "occupancy",
            "baggage_tracking"} |->
        CASE t = "intrusion" -> [intensity |-> 8, delay |-> 150]
          [] t = "crowd_analytics" -> [intensity |-> 4, delay |-> 60]
          [] t = "passenger_flow" -> [intensity |-> 5, delay |-> 80]
          [] t = "occupancy" -> [intensity |-> 1, delay |-> 20]
          [] t = "baggage_tracking" -> [intensity |-> 6, delay |-> 90]]

\* (mutant) the list without the core gateway filtered out
AllDestinations(edges) == [k \in 1..Len(edges) |-> edges[k].id] \o <<"cloud_primary">>

\* the list random.choice draws a destination from
RandomDestinations(edges) == NonGatewayIds(edges) \o <<"cloud_primary">>

\* the backup of a flow whose destination is dest
BackupFor(dest) == IF dest # "cloud_primary" THEN "cloud_primary" ELSE "edge_security"

\* one pass of the loop of generate_flows: the flow made for cam and the
\* state the random stream is left in
FlowFor(cam, strategy, edges, r) ==
    LET local_edge == LocalEdge(cam)
        draws == strategy \notin {"all_edge", "all_cloud", "critical_edge"}
        r1 == IF draws THEN NextRng(r) ELSE r
        opts == RandomDestinations(edges)
        dest == IF strategy = "all_edge" THEN local_edge
                ELSE IF strategy = "all_cloud" THEN "cloud_primary"
                ELSE IF strategy = "critical_edge"
                  THEN IF cam.zone = "PZ1_CRITICAL_SECURITY" THEN local_edge
                       ELSE "cloud_primary"
                ELSE opts[RandBelow(r1, Len(opts)) + 1]
        task == analytics_map[cam.zone]
        base_profile == analytics_profile[task]
        r2 == NextRng(r1)
        jitter == RandUniformTenths(r2, 9, 11)
    IN [flow |->
           [id |-> "flow_" \o cam.id, camera_id |-> cam.id, zone |-> cam.zone,
            source |-> cam.id, destination |-> dest,
            backup_destination |-> BackupFor(dest),
            bitrate_mbps |-> cam.bitrate_mbps, priority |-> cam.priority,
            analytics_type |-> task,
            compute_intensity |-> RatMin(Rat(1, 1),
                                         RatMul(jitter, base_profile.intensity, 10)),
            processing_delay_ms |-> base_profile.delay],
        rng |-> r2]

\* self.flows and the random stream after generate_flows(strategy)
RECURSIVE FlowsFor(_, _, _, _, _)
FlowsFor(cams, strategy, edges, r, acc) ==
    IF cams = <<>> THEN [flows |-> acc, rng |-> r]
    ELSE LET f == FlowFor(Head(cams), strategy, edges, r)
         IN FlowsFor(Tail(cams), strategy, edges, f.rng, Append(acc, f.flow))

\* g.generate_flows(strategy)
GenerateFlows(g, strategy) ==
    LET out == FlowsFor(gen[g].cameras, strategy, gen[g].edge_servers, rng, <<>>)
    IN /\ gen' = [gen EXCEPT ![g].flows = out.flows]
       /\ rng' = out.rng
       /\ Logged(g, Call("generate_flows", strategy, 0))
       /\ err' = "none"
       /\ UNCHANGED <<seed, cur, files>>

----------------------------------------------------------------------------
(* Background traffic                                                       *)

terminals == <<"edge_termA", "edge_termB", "edge_termC">>

\* self.background_traffic and the random stream after the loop has run for
\* i, ..., num_flows - 1
RECURSIVE BackgroundFor(_, _, _, _)
BackgroundFor(i, num_flows, r, acc) ==
    IF i >= num_flows THEN [traffic |-> acc, rng |-> r]
    ELSE LET r1 == NextRng(r)
             r2 == NextRng(r1)
             r3 == NextRng(r2)
             r4 == NextRng(r3)
             b == [id |-> "bg_" \o ToString(i),
                   src |-> terminals[RandBelow(r1, Len(terminals)) + 1],
                   dst |-> "cloud_primary",
                   start_time_s |-> RandBelow(r2, 601),
                   duration_s |-> 30 + RandBelow(r3, 271),
                   bitrate_mbps |-> RandUniformTenths(r4, 50, 200),
                   flow_type |-> "TCP"]
         IN BackgroundFor(i + 1, num_flows, r4, Append(acc, b))

\* g.generate_background_traffic(num_flows)
GenerateBackgroundTraffic(g, num_flows) ==
    LET out == BackgroundFor(0, num_flows, rng, <<>>)
    IN /\ gen' = [gen EXCEPT ![g].background_traffic = out.traffic]
       /\ rng' = out.rng
       /\ Logged(g, Call("generate_background_traffic", "", num_flows))
       /\ err' = "none"
       /\ UNCHANGED <<seed, cur, files>>

----------------------------------------------------------------------------
(* Failures                                                                 *)

FailureEvent(target, failure_type, start_time_s, duration_s, severity) ==
    [target |-> target, failure_type |-> failure_type, start_time_s |-> start_time_s,
     duration_s |-> duration_s, severity |-> severity]

\* (mutant) the 0.65 test placed before the 0.70 test
FailureRegimeReordered(roll) ==
    IF RatLt(Rat(85, 100), roll) THEN "shutdown"
    ELSE IF RatLt(Rat(65, 100), roll) THEN "double_shutdown"
    ELSE IF RatLt(Rat(70, 100), roll) THEN "link_degradation"
    ELSE "none"

\* the branch generate_failures takes on scenario_roll
FailureRegime(roll) ==
    IF RatLt(Rat(85, 100), roll) THEN "shutdown"
    ELSE IF RatLt(Rat(70, 100), roll) THEN "link_degradation"
    ELSE IF RatLt(Rat(65, 100), roll) THEN "double_shutdown"
    ELSE "none"

\* (mutant) the candidates without the core gateway filtered out
AllEdgeIds(edges) == [k \in 1..Len(edges) |-> edges[k].id]

\* the candidate targets of a shutdown
ShutdownTargets(edges) == NonGatewayIds(edges)

\* self.failures and the random stream after generate_failures()
FailuresFor(edges, r) ==
    LET r1 == NextRng(r)
        regime == FailureRegime(RandUnit(r1))
        targets == ShutdownTargets(edges)
        r2 == NextRng(r1)
        r3 == NextRng(r2)
    IN IF regime = "shutdown"
         THEN IF targets # <<>>
                THEN [failures |->
                         <<FailureEvent(targets[RandBelow(r2, Len(targets)) + 1],
                                        "shutdown", 100 + RandBelow(r3, 301), 120,
                                        Rat(1, 1))>>,
                      rng |-> r3]
              ELSE [failures |-> <<>>, rng |-> r1]
       ELSE IF regime = "link_degradation"
         THEN [failures |->
                  <<FailureEvent("core_gateway_cloud_primary", "link_degradation",
                                 50 + RandBelow(r2, 251), 200, Rat(2, 10))>>,
               rng |-> r2]
       ELSE IF regime = "double_shutdown" /\ Len(targets) >= 2
         THEN [failures |->
                  <<FailureEvent(targets[1], "shutdown", 100, 60, Rat(1, 1)),
                    FailureEvent(targets[Len(targets)], "shutdown", 120, 60, Rat(1, 1))>>,
               rng |-> r1]
       ELSE [failures |-> <<>>, rng |-> r1]

\* g.generate_failures()
GenerateFailures(g) ==
    LET out == FailuresFor(gen[g].edge_servers, rng)
    IN /\ gen' = [gen EXCEPT ![g].failures = out.failures]
       /\ rng' = out.rng
       /\ Logged(g, Call("generate_failures", "", 0))
       /\ err' = "none"
       /\ UNCHANGED <<seed, cur, files>>

----------------------------------------------------------------------------
(* Export                                                                   *)

\* the Python types json.dump writes by itself
JsonNative == {"int", "float", "bool", "str", "list", "dict"}

\* custom_serializer returns the name of an Enum and raises TypeError for
\* anything else
Serializable(kind) == kind \in JsonNative \/ kind = "enum"

IntentSerializable(i) ==
    \A k \in 1..Len(i.constraints) : Serializable(i.constraints[k].kind)

\* the keys of the scenario dict in the order json.dump writes them, each with
\* whether all of its content can be written
Sections(g0) ==
    <<[name |-> "scenario_id", ok |-> TRUE],
      [name |-> "context", ok |-> TRUE],
      [name |-> "cameras", ok |-> TRUE],
      [name |-> "edge_servers", ok |-> TRUE],
      [name |-> "cloud_endpoints", ok |-> TRUE],
      [name |-> "network_links", ok |-> TRUE],
      [name |-> "flows", ok |-> TRUE],
      [name |-> "background_traffic", ok |-> TRUE],
      [name |-> "intents",
       ok |-> \A k \in 1..Len(g0.intents) : IntentSerializable(g0.intents[k])],
      [name |-> "failures", ok |-> TRUE]>>

\* the sections json.dump has written in full when it stops
RECURSIVE Written(_)
Written(secs) ==
    IF secs = <<>> \/ ~Head(secs).ok THEN <<>>
    ELSE <<Head(secs).name>> \o Written(Tail(secs))

\* what `with open(filename, 'w') as f: json.dump(...)` leaves at filename
Dumped(g0, scenario_id, weather_context) ==
    LET secs == Sections(g0)
        done == Written(secs)
    IN [exists |-> TRUE, complete |-> Len(done) = Len(secs),
        scenario_id |-> scenario_id, weather |-> weather_context,
        time_of_day |-> IF Len(g0.background_traffic) > 50 THEN "peak" ELSE "off_peak",
        sections |-> done]

\* g.export_scenario(filename, scenario_id, weather_context)
ExportScenario(g, filename, scenario_id, weather_context) ==
    LET out == Dumped(gen[g], scenario_id, weather_context)
    IN /\ files' = [files EXCEPT ![filename] = out]
       /\ err' = IF out.complete THEN "none" ELSE "TypeError"
       /\ Logged(g, Call("export_scenario", filename, scenario_id))
       /\ UNCHANGED <<rng, gen, seed, cur>>

----------------------------------------------------------------------------
(* The driver                                                               *)

\* one random.choice / random.randint of generate_dataset between two calls
\* on its generator
DriverDraw ==
    /\ rng' = NextRng(rng)
    /\ Logged(cur, Call("driver_draw", "", 0))
    /\ err' = "none"
    /\ UNCHANGED <<gen, seed, cur, files>>

Weathers == {"clear", "rain", "storm"}
TimeContexts == {"peak", "off_peak", "emergency"}
Strategies == {"random", "all_edge", "critical_edge", "all_cloud", "nearest"}

\* the driver may make one more call on generator g
MayCall(g) == Len(log[g]) < MaxCalls

\* one driver, one generator object: any call on it, in any order
Next ==
    \/ \E s \in Seeds : Construct(cur, s)
    \/ MayCall(cur) /\ GenerateTopology(cur)
    \/ MayCall(cur) /\ AddTerminalCameras(cur, <<"Hangar">>, <<"Bay">>, "PZ3_PUBLIC_AREA", 1)
    \/ MayCall(cur) /\ \E w \in Weathers : ApplyWeatherPhysics(cur, w)
    \/ MayCall(cur) /\ \E t \in TimeContexts : GenerateIntents(cur, t)
    \/ MayCall(cur) /\ \E p \in Strategies : GenerateFlows(cur, p)
    \/ MayCall(cur) /\ GenerateBackgroundTraffic(cur, 1)
    \/ MayCall(cur) /\ GenerateFailures(cur)
    \/ MayCall(cur) /\ \E f \in Paths : ExportScenario(cur, f, 0, "clear")
    \/ MayCall(cur) /\ DriverDraw

Spec == Init /\ [][Next]_vars

IsPrefix(a, b) == Len(a) <= Len(b) /\ a = SubSeq(b, 1, Len(a))

\* one driver, two generator objects one after the other: g1 is driven through
\* any calls, then g2 is constructed and driven through the calls g1 was
Replays == cur' = "g2" => IsPrefix(log'["g2"], log'["g1"])

SeqNext ==
    \/ \E s \in Seeds : Construct(cur, s) /\ Replays
    \/ \E s \in Seeds : cur = "g1" /\ Construct("g2", s) /\ Replays
    \/ MayCall(cur) /\ GenerateTopology(cur) /\ Replays
    \/ MayCall(cur) /\ ApplyWeatherPhysics(cur, "storm") /\ Replays
    \/ MayCall(cur) /\ GenerateIntents(cur, "peak") /\ Replays
    \/ MayCall(cur) /\ GenerateFlows(cur, "random") /\ Replays
    \/ MayCall(cur) /\ GenerateBackgroundTraffic(cur, 1) /\ Replays
    \/ MayCall(cur) /\ GenerateFailures(cur) /\ Replays
    \/ MayCall(cur) /\ DriverDraw /\ Replays

SpecSeq == Init /\ [][SeqNext]_vars

\* the calls made on both generator objects since their construction
TotalCalls == Len(log["g1"]) + Len(log["g2"])

\* two generator objects alive at once: the calls on them interleave
SharedNext ==
    \/ \E g \in Gens, s \in Seeds : Construct(g, s)
    \/ \E g \in Gens : TotalCalls < MaxCalls /\ GenerateTopology(g)
    \/ \E g \in Gens : TotalCalls < MaxCalls /\ GenerateFlows(g, "random")
    \/ \E g \in Gens : TotalCalls < MaxCalls /\ GenerateBackgroundTraffic(g, 1)
    \/ \E g \in Gens : TotalCalls < MaxCalls /\ GenerateFailures(g)
    \/ TotalCalls < MaxCalls /\ DriverDraw

SpecShared == Init /\ [][SharedNext]_vars

\* one driver, one generator object whose intents the caller adds to before
\* it exports
ExportNext ==
    \/ \E s \in Seeds : Construct(cur, s)
    \/ MayCall(cur) /\ GenerateTopology(cur)
    \/ MayCall(cur) /\ \E t \in TimeContexts : GenerateIntents(cur, t)
    \/ MayCall(cur) /\ GenerateFlows(cur, "all_edge")
    \/ MayCall(cur) /\ GenerateFailures(cur)
    \/ MayCall(cur) /\ \E k \in {"enum", "set"} : CallerAppendIntent(cur, k)
    \/ MayCall(cur) /\ \E f \in Paths, id \in {0, 1} : ExportScenario(cur, f, id, "clear")

SpecExport == Init /\ [][ExportNext]_vars

----------------------------------------------------------------------------
(* Properties                                                               *)

Last(q) == q[Len(q)]

\* the last call made on g was op
LastCallIs(g, op) == log[g] # <<>> /\ Last(log[g]).op = op

\* this step is a call of op on g
IsCall(g, op) ==
    /\ log'[g] # <<>>
    /\ log'[g] = Append(log[g], Last(log'[g]))
    /\ Last(log'[g]).op = op

EdgeIds(g) == {gen[g].edge_servers[k].id : k \in 1..Len(gen[g].edge_servers)}
CameraIds(g) == {gen[g].cameras[k].id : k \in 1..Len(gen[g].cameras)}
CloudIds(g) == {gen[g].cloud_endpoints[k].id : k \in 1..Len(gen[g].cloud_endpoints)}
Range(q) == {q[k] : k \in 1..Len(q)}

\* C1: no flow of any generator has the core gateway as its destination, and
\* no flow's destination is its backup destination, whatever the placement
\* strategy and whatever the random stream yields.
C1_FlowDestinations ==
    \A g \in Gens : \A f \in Range(gen[g].flows) :
        /\ f.destination # "core_gateway"
        /\ f.destination # f.backup_destination

\* C1 witness: generate_flows has run with a strategy string it does not know,
\* on a built topology, and drew both an edge and the cloud as destinations.
C1_Witness ==
    /\ LastCallIs(cur, "generate_flows") /\ Last(log[cur]).str = "nearest"
    /\ gen[cur].edge_servers # <<>>
    /\ \E f \in Range(gen[cur].flows) :
           f.destination = "cloud_primary" /\ f.backup_destination = "edge_security"
    /\ \E f \in Range(gen[cur].flows) :
           f.destination \in EdgeIds(cur) /\ f.backup_destination = "cloud_primary"

\* C2 (as claimed): right after generate_flows, on a generator that has only
\* ever been asked for generate_topology and generate_flows, every camera has
\* exactly one flow with its camera_id.
C2_OneFlowPerCamera ==
    \A g \in Gens :
        (/\ LastCallIs(g, "generate_flows")
         /\ \A c \in Range(log[g]) : c.op \in {"generate_topology", "generate_flows"})
        => \A cam \in Range(gen[g].cameras) :
               Cardinality({k \in 1..Len(gen[g].flows) :
                               gen[g].flows[k].camera_id = cam.id}) = 1

\* C3: both ends of every network link are ids of cameras, edge servers or
\* cloud endpoints of the same generator.
C3_LinkEndsExist ==
    \A g \in Gens : \A l \in Range(gen[g].network_links) :
        LET ids == CameraIds(g) \cup EdgeIds(g) \cup CloudIds(g)
        IN l.src \in ids /\ l.dst \in ids

\* C3 witness: a link was made for a camera of a terminal the map does not
\* hold, and ends at the fallback edge.
C3_Witness ==
    \E l \in Range(gen[cur].network_links) :
        /\ l.src = "cam_Hangar_Bay_00"
        /\ l.dst = "edge_termA"
        /\ l.dst \in EdgeIds(cur)

\* C4 (as claimed): a call of apply_weather_physics leaves no link with a
\* higher capacity, a lower latency or a lower packet loss rate than it had.
C4_WeatherNeverImproves ==
    [][\A g \in Gens :
          IsCall(g, "apply_weather_physics") =>
              /\ Len(gen'[g].network_links) = Len(gen[g].network_links)
              /\ \A k \in 1..Len(gen[g].network_links) :
                    LET old == gen[g].network_links[k]
                        new == gen'[g].network_links[k]
                    IN /\ RatLeq(new.capacity_mbps, old.capacity_mbps)
                       /\ RatLeq(old.latency_ms, new.latency_ms)
                       /\ RatLeq(old.packet_loss_rate, new.packet_loss_rate)]_vars

\* C5: a call of apply_weather_physics adds and removes no link, changes no
\* link that is not stochastic, no link at all under "clear" and no WAN link
\* under "rain"; the links it changes are wireless (rain, storm) or WAN (storm).
C5_WeatherFrame ==
    [][\A g \in Gens :
          IsCall(g, "apply_weather_physics") =>
              LET w == Last(log'[g]).str
              IN /\ Len(gen'[g].network_links) = Len(gen[g].network_links)
                 /\ \A k \in 1..Len(gen[g].network_links) :
                       LET old == gen[g].network_links[k]
                           new == gen'[g].network_links[k]
                       IN /\ ~old.stochastic => new = old
                          /\ w = "clear" => new = old
                          /\ (w = "rain" /\ old.link_type = "wan") => new = old
                          /\ new # old =>
                                \/ old.link_type = "wireless" /\ w \in {"rain", "storm"}
                                \/ old.link_type = "wan" /\ w = "storm"]_vars

\* C5 witness: a storm has been applied to a built topology: the wired links
\* are as built, a wireless and a WAN link are not.
C5_Witness ==
    /\ LastCallIs(cur, "apply_weather_physics") /\ Last(log[cur]).str = "storm"
    /\ \E l \in Range(gen[cur].network_links) :
           l.link_type = "wired" /\ ~l.stochastic /\ l.capacity_mbps = Rat(10000, 1)
    /\ \E l \in Range(gen[cur].network_links) :
           l.link_type = "wireless" /\ RatEq(l.capacity_mbps, Rat(180, 1))
    /\ \E l \in Range(gen[cur].network_links) :
           l.link_type = "wan" /\ RatEq(l.capacity_mbps, Rat(700, 1))

\* the failure list is exactly one event of the given type and severity
OneEvent(f, type, severity) ==
    Len(f) = 1 /\ f[1].failure_type = type /\ RatEq(f[1].severity, severity)

\* C6: generate_failures on a built topology takes one draw r and leaves
\* exactly the events of r's regime, whatever the list held before: r above
\* 0.85, one shutdown of severity 1.0; else above 0.70, one link_degradation of
\* severity 0.2 on the gateway-to-primary-cloud link; else above 0.65, two
\* shutdowns, of the first and the last non-gateway edge, at different start
\* times; else no event.
C6_FailureRegimes ==
    [][\A g \in Gens :
          (IsCall(g, "generate_failures") /\ gen[g].edge_servers # <<>>) =>
              LET r == NextRng(rng)
                  f == gen'[g].failures
              IN IF r * 100 > 85 * RngMod
                   THEN OneEvent(f, "shutdown", Rat(1, 1))
                 ELSE IF r * 100 > 70 * RngMod
                   THEN /\ OneEvent(f, "link_degradation", Rat(2, 10))
                        /\ f[1].target = "core_gateway_cloud_primary"
                 ELSE IF r * 100 > 65 * RngMod
                   THEN /\ Len(f) = 2
                        /\ f[1].failure_type = "shutdown" /\ f[2].failure_type = "shutdown"
                        /\ RatEq(f[1].severity, Rat(1, 1)) /\ RatEq(f[2].severity, Rat(1, 1))
                        /\ f[1].target = "edge_termA" /\ f[2].target = "edge_perimeter"
                        /\ f[1].target # f[2].target
                        /\ f[1].start_time_s # f[2].start_time_s
                 ELSE f = <<>>]_vars

\* C6 witness: generate_failures has run on a built topology and left the
\* double shutdown.
C6_Witness ==
    /\ LastCallIs(cur, "generate_failures")
    /\ gen[cur].edge_servers # <<>>
    /\ Len(gen[cur].failures) = 2

\* C7: every shutdown event of a generator targets one of its edge servers,
\* and never the core gateway.
C7_ShutdownTargets ==
    \A g \in Gens : \A e \in Range(gen[g].failures) :
        e.failure_type = "shutdown" =>
            e.target \in EdgeIds(g) /\ e.target # "core_gateway"

\* C7 witness: a single shutdown event has been generated.
C7_Witness ==
    /\ Len(gen[cur].failures) = 1
    /\ gen[cur].failures[1].failure_type = "shutdown"
    /\ gen[cur].failures[1].target \in EdgeIds(cur)

\* C8: two generators constructed with the same seed and driven one after the
\* other through the same calls hold the same cameras, links, flows, intents,
\* background traffic and failures.
C8_Determinism ==
    (seed["g1"] = seed["g2"] /\ log["g1"] = log["g2"]) => gen["g1"] = gen["g2"]

\* C8 witness: the second generator has been driven through the same calls
\* as the first, with random draws among them.
C8_Witness ==
    /\ cur = "g2" /\ seed["g1"] = seed["g2"] /\ log["g1"] = log["g2"]
    /\ gen["g2"].flows # <<>>
    /\ \E c \in Range(log["g2"]) : c.op = "generate_flows" /\ c.str = "random"
    /\ LastCallIs("g2", "generate_failures")

\* the calls of a log that were made on the generator itself
OwnCalls(q) == SelectSeq(q, LAMBDA c : c.op # "driver_draw")

\* C9 (as claimed): what a generator holds depends on its seed and on the
\* calls made on it alone: two generators with the same seed and the same
\* calls hold the same flows, background traffic and failures, whatever was
\* constructed, called or drawn in between.
C9_SelfContained ==
    \A g, h \in Gens :
        (seed[g] = seed[h] /\ OwnCalls(log[g]) = OwnCalls(log[h])) =>
            /\ gen[g].flows = gen[h].flows
            /\ gen[g].background_traffic = gen[h].background_traffic
            /\ gen[g].failures = gen[h].failures

\* C10 (as claimed): when export_scenario has raised its serialization
\* error, the file at the target path is absent or a complete document.
C10_NoPartialFile ==
    err = "TypeError" => \A p \in Paths : ~files[p].exists \/ files[p].complete

\* the ids of an intent list, in list order
IntentIds(q) == [k \in 1..Len(q) |-> q[k].id]

\* C11: generate_intents(time_context) leaves, whatever the intent list held
\* before, the six base intents SC1, SC2, CM1, CO1, NQ1, FT1 in this order,
\* followed by CA1 ("Peak hour security boost") when time_context is "peak",
\* by CA2 (the emergency override of cost) when it is "emergency", and by
\* nothing when it is "off_peak"; no other field of the generator changes.
C11_IntentsOfContext ==
    [][\A g \in Gens :
          IsCall(g, "generate_intents") =>
              LET t == Last(log'[g]).str
                  q == gen'[g].intents
                  base == <<"SC1", "SC2", "CM1", "CO1", "NQ1", "FT1">>
              IN /\ SubSeq(IntentIds(q), 1, 6) = base
                 /\ {q[k].category : k \in 1..6} =
                        {"SAFETY_CRITICAL", "CROWD_MONITORING", "COST_OPTIMIZATION",
                         "NETWORK_QOS", "FAULT_TOLERANCE"}
                 /\ t = "peak" =>
                        /\ Len(q) = 7 /\ q[7].id = "CA1"
                        /\ q[7].category = "CONTEXT_AWARE"
                        /\ q[7].description = "Peak hour security boost"
                 /\ t = "emergency" =>
                        /\ Len(q) = 7 /\ q[7].id = "CA2"
                        /\ q[7].category = "CONTEXT_AWARE"
                        /\ q[7].constraints[1].key = "override_cost"
                 /\ t = "off_peak" => Len(q) = 6
                 /\ gen'[g] = [gen[g] EXCEPT !.intents = q]
      ]_vars

\* C11 witness: generate_intents("off_peak") has run on a generator whose
\* previous call was generate_intents("peak"), and six intents are left.
C11_Witness ==
    /\ Len(log[cur]) >= 2
    /\ LastCallIs(cur, "generate_intents") /\ Last(log[cur]).str = "off_peak"
    /\ log[cur][Len(log[cur]) - 1].op = "generate_intents"
    /\ log[cur][Len(log[cur]) - 1].str = "peak"
    /\ Len(gen[cur].intents) = 6

====
